---- MODULE Spec2Model ----
(***************************************************************************)
(* Procedural Identity Simulator (src/PIS.py): the activation /            *)
(* competition / decay loop of run_simulation over the population          *)
(* system.alters.                                                          *)
(*                                                                         *)
(* Energies, weights and the tunable constants are floats in the program:  *)
(* numbers of finite precision, every product rounded to the nearest       *)
(* representable number, ties to even.  Here they are decimal numbers of   *)
(* finite precision, integers counting Scale-ths, with products rounded    *)
(* the same way.  The tunable constants the source leaves undefined        *)
(* (FRONT_THRESHOLD, INHIBITION_RATE, KERNEL_BOOST, ENERGY_DECAY,          *)
(* ROLE_SENSITIVITY), the initial energies and the tick count are chosen   *)
(* in Init from small sets.                                                *)
(***************************************************************************)
EXTENDS Integers, Sequences, FiniteSets

\* ------------------------------------------------------------------ bounds
\* Largest tick count passed to run_simulation.
MaxTicks == 2
\* Number of alters of the roster (system.alters) kept in the population.
NumAlters == 3

\* ----------------------------------------------------------------- numbers
\* The precision of a number: it counts Scale-ths.
Scale == 1000

\* n / d, d > 0, rounded to the nearest integer, ties to even.
RoundDiv(n, d) ==
    LET q == n \div d
        r == n % d
    IN IF 2 * r < d THEN q
       ELSE IF 2 * r > d THEN q + 1
       ELSE IF q % 2 = 0 THEN q ELSE q + 1

\* The decimal literal n/d.
Dec(n, d) == RoundDiv(n * Scale, d)

Zero == 0
One == Scale
Add(a, b) == a + b
Sub(a, b) == a - b
Mul(a, b) == RoundDiv(a * b, Scale)
Leq(a, b) == a <= b
Lt(a, b) == a < b
Geq(a, b) == a >= b
Gt(a, b) == a > b

\* Python's max(a, b): b only when it is strictly greater than a.
PyMax(a, b) == IF Gt(b, a) THEN b ELSE a

\* f"{x:.2f}": the number of hundredths nearest to x, ties to even.
Fmt2(x) == RoundDiv(100 * x, Scale)

\* ------------------------------------------------------------- population
\* len(system.alters): the roster's first NumAlters alters, or none.
PopulationChoices == {0, NumAlters}

Roster == << [name |-> "Nichole", role |-> "Interface"],
             [name |-> "Victoria", role |-> "Strategist"],
             [name |-> "Natalia", role |-> "Protector"],
             [name |-> "Jeanine", role |-> "Sensory"],
             [name |-> "Maria", role |-> "Ecstatic"],
             [name |-> "Jasmine", role |-> "Anchor"],
             [name |-> "Marina", role |-> "Analyst"],
             [name |-> "Natasha", role |-> "Sentinel"] >>

RoleOf(a) == Roster[a].role

\* Initial energies of the roster.
EnergyChoices == {Dec(1, 10), Dec(1, 2)}

\* nichi = NichiField(base_intensity=0.6)
NichiIntensity == Dec(6, 10)

\* The sensitivity weight of a stimulus type a role's row does not hold.
DefaultWeight == Dec(1, 10)

\* A role's row of weights, as in role_sensitivity's comment.
ExampleRow == [emotional |-> Dec(8, 10), logical |-> Dec(5, 10), social |-> Dec(9, 10)]

\* A row without entries: every stimulus type takes the default weight.
EmptyRow == [x \in {} |-> Zero]

\* random_stimulus: a type of the list and an intensity of [0, 1).
StimTypes == {"emotional", "logical", "sensory", "social"}
StimIntensities == {Zero, Dec(1, 2)}
NoStim == [type |-> "none", intensity |-> Zero]

\* The stimuli sampled: a stimulus of intensity 0 adds 0 to every alter
\* whatever its type, so one type stands for the four there.
StimChoices ==
    {s \in [type : StimTypes, intensity : StimIntensities] :
        s.intensity = Zero => s.type = "emotional"}

ThresholdChoices == {Dec(1, 2), One}
InhibitionChoices == {Dec(1, 2), Dec(2, 1)}
BoostChoices == {Dec(1, 4), Dec(1, 2)}
DecayChoices == {Dec(1, 10), Dec(1, 2)}
TickChoices == (-1)..MaxTicks

None == 0

VARIABLES
    population,  \* len(system.alters)
    intensity,   \* nichi.intensity
    FRONT_THRESHOLD, INHIBITION_RATE, KERNEL_BOOST, ENERGY_DECAY,
    ROLE_SENSITIVITY,
    energy,      \* alt.energy of every alter of system.alters
    ticks,       \* run_simulation's argument
    t,           \* the loop variable of run_simulation
    pc,          \* the next stage of run_simulation
    stim,        \* this tick's stimulus
    idx,         \* position of the intake loop in system.alters
    fronting,    \* this tick's candidates, in population order
    active,      \* the last arbitration winner
    frontLog,    \* what front has logged, with the tick it was logged in
    out,         \* what log_state has printed
    stages,      \* the stages the current tick has gone through
    energy0,     \* the energies run_simulation was entered with
    steps,       \* the number of steps run_simulation has taken
    tickStart,   \* the energies the current tick began with
    run,         \* which call of run_simulation this is: the first or second
    stims,       \* the stimuli the random source gave the first call
    out1,        \* what log_state printed during the first call
    frontLog1    \* what front logged during the first call

vars == << population, intensity, FRONT_THRESHOLD, INHIBITION_RATE, KERNEL_BOOST, ENERGY_DECAY,
           ROLE_SENSITIVITY, energy, ticks, t, pc, stim, idx, fronting,
           active, frontLog, out, stages, energy0, steps, tickStart, run, stims,
           out1, frontLog1 >>

\* What only a new call of run_simulation changes.
calls == << run, out1, frontLog1 >>

config == << population, intensity, FRONT_THRESHOLD, INHIBITION_RATE, KERNEL_BOOST, ENERGY_DECAY,
             ROLE_SENSITIVITY, ticks, energy0 >>

\* system.alters, by position.
Alters == 1..population
Roles == {RoleOf(a) : a \in Alters}

\* ROLE_SENSITIVITY: every role of the population has the example row; or
\* the first alter's role has the empty row; or the last alter's role has no
\* row at all.
TableChoices ==
    { [r \in Roles |-> ExampleRow] } \cup
    ( IF population = 0 THEN {}
      ELSE { [r \in Roles |-> IF r = RoleOf(1) THEN EmptyRow ELSE ExampleRow],
             [r \in Roles \ {RoleOf(population)} |-> ExampleRow] } )

Init ==
    /\ population \in PopulationChoices
    /\ intensity = NichiIntensity
    /\ FRONT_THRESHOLD \in ThresholdChoices
    /\ INHIBITION_RATE \in InhibitionChoices
    /\ KERNEL_BOOST \in BoostChoices
    /\ ENERGY_DECAY \in DecayChoices
    /\ ROLE_SENSITIVITY \in TableChoices
    /\ energy \in [Alters -> EnergyChoices]
    /\ energy0 = energy
    /\ ticks \in TickChoices
    /\ t = 0
    /\ pc = "loop"
    /\ stim = NoStim
    /\ idx = 1
    /\ fronting = << >>
    /\ active = None
    /\ frontLog = << >>
    /\ out = << >>
    /\ stages = << >>
    /\ steps = 0
    /\ tickStart = energy
    /\ run = 1
    /\ stims = << >>
    /\ out1 = << >>
    /\ frontLog1 = << >>

\* ------------------------------------------------------------------ Alter
\* Faulty variant of role_sensitivity: .get(stim_type, 0), no default weight.
role_sensitivity_no_default(a, stim_type) ==
    LET row == ROLE_SENSITIVITY[RoleOf(a)]
    IN IF stim_type \in DOMAIN row THEN row[stim_type] ELSE Zero

\* role_sensitivity: ROLE_SENSITIVITY[self.role].get(stim_type, 0.1); the
\* caller guards the outer lookup (a role without a row is a KeyError).
role_sensitivity(a, stim_type) ==
    LET row == ROLE_SENSITIVITY[RoleOf(a)]
    IN IF stim_type \in DOMAIN row THEN row[stim_type] ELSE DefaultWeight

\* receive_stimulus, the update: self.energy += intensity * sensitivity.
StimulatedEnergy(a, s) ==
    Add(energy[a], Mul(s.intensity, role_sensitivity(a, s.type)))

\* Faulty variant of receive_stimulus: a strict comparison.
receive_stimulus_strict(a, s) == Gt(StimulatedEnergy(a, s), FRONT_THRESHOLD)

\* receive_stimulus, the result: self.energy >= FRONT_THRESHOLD, read after
\* the update.
receive_stimulus(a, s) == Geq(StimulatedEnergy(a, s), FRONT_THRESHOLD)

\* front's loop over system.alters from position i on: every other alter's
\* energy is multiplied by (1 - self.energy * INHIBITION_RATE), self.energy
\* being read anew at every step.
RECURSIVE FrontLoop(_, _, _)
FrontLoop(e, self, i) ==
    IF i > population THEN e
    ELSE IF i = self THEN FrontLoop(e, self, i + 1)
    ELSE FrontLoop(
             [e EXCEPT ![i] = Mul(e[i], Sub(One, Mul(e[self], INHIBITION_RATE)))],
             self, i + 1)

\* Faulty variant of front: the `other is not self` test is missing.
RECURSIVE FrontLoopAll(_, _, _)
FrontLoopAll(e, self, i) ==
    IF i > population THEN e
    ELSE FrontLoopAll(
             [e EXCEPT ![i] = Mul(e[i], Sub(One, Mul(e[self], INHIBITION_RATE)))],
             self, i + 1)

front_all(e, self) == FrontLoopAll(e, self, 1)

front(e, self) == FrontLoop(e, self, 1)

\* ------------------------------------------------------------- NichiField
\* Faulty variants of modulate: the boost grows along the list; the first
\* alter is left out.
modulate_growing(e) ==
    [a \in Alters |-> Add(e[a], a * Mul(intensity, KERNEL_BOOST))]

modulate_rest(e) ==
    [a \in Alters |->
        IF a = 1 THEN e[a] ELSE Add(e[a], Mul(intensity, KERNEL_BOOST))]

\* modulate: alt.energy += self.intensity * KERNEL_BOOST for every alter.
modulate(e) == [a \in Alters |-> Add(e[a], Mul(intensity, KERNEL_BOOST))]

\* --------------------------------------------------------- run_simulation
\* max(fronting, key=lambda a: a.energy) over fronting[i..]: the running
\* best is replaced only by a strictly greater energy.
RECURSIVE MaxFrom(_, _, _, _)
MaxFrom(seq, e, best, i) ==
    IF i > Len(seq) THEN best
    ELSE MaxFrom(seq, e, IF Gt(e[seq[i]], e[best]) THEN seq[i] ELSE best, i + 1)

\* Faulty variants of the arbitration: the winner's position in fronting
\* taken for the winner; the first candidate; the last of the maximal ones.
RECURSIVE MaxPosFrom(_, _, _, _)
MaxPosFrom(seq, e, best, i) ==
    IF i > Len(seq) THEN best
    ELSE MaxPosFrom(seq, e, IF Gt(e[seq[i]], e[seq[best]]) THEN i ELSE best, i + 1)

MaxPosition(seq, e) == MaxPosFrom(seq, e, 1, 2)

FirstCandidate(seq, e) == seq[1]

RECURSIVE MaxLastFrom(_, _, _, _)
MaxLastFrom(seq, e, best, i) ==
    IF i > Len(seq) THEN best
    ELSE MaxLastFrom(seq, e, IF Geq(e[seq[i]], e[best]) THEN seq[i] ELSE best, i + 1)

MaxByEnergyLast(seq, e) == MaxLastFrom(seq, e, seq[1], 2)

MaxByEnergy(seq, e) == MaxFrom(seq, e, seq[1], 2)

\* Faulty variant of the decay: no floor at zero.
decay_no_floor(e) == [a \in Alters |-> Sub(e[a], ENERGY_DECAY)]

\* Faulty variant of the decay: the alter that fronted in this tick is
\* left out.
decay_peers_only(e) ==
    [a \in Alters |->
        IF fronting # << >> /\ a = active THEN e[a]
        ELSE PyMax(Zero, Sub(e[a], ENERGY_DECAY))]

\* alt.energy = max(0.0, alt.energy - ENERGY_DECAY) for every alter.
decay(e) == [a \in Alters |-> PyMax(Zero, Sub(e[a], ENERGY_DECAY))]

\* log_state's line: the energies as printed.
Status(e) == [a \in Alters |-> Fmt2(e[a])]

\* Faulty variant of the statement order: the decay inside `if fronting`.
StageAfterDecayInIf(stage, won) ==
    CASE stage = "stimulus" -> "modulate"
      [] stage = "modulate" -> "intake"
      [] stage = "intake" -> "arbitrate"
      [] stage = "arbitrate" -> IF won THEN "front" ELSE "observe"
      [] stage = "front" -> "decay"
      [] stage = "decay" -> "observe"
      [] OTHER -> "loop"

\* The statement order of the loop body: the stage that follows `stage`,
\* `won` telling whether fronting is non-empty.
StageAfter(stage, won) ==
    CASE stage = "stimulus" -> "modulate"
      [] stage = "modulate" -> "intake"
      [] stage = "intake" -> "arbitrate"
      [] stage = "arbitrate" -> IF won THEN "front" ELSE "decay"
      [] stage = "front" -> "decay"
      [] stage = "decay" -> "observe"
      [] OTHER -> "loop"

\* Faulty variant of range(ticks): one iteration too many.
InRangeInclusive(i, n) == 0 <= i /\ i <= n

\* for t in range(ticks): whether the loop has another value i to take.
InRange(i, n) == 0 <= i /\ i < n

\* for t in range(ticks): one more iteration; stim = random_stimulus().  The
\* random source gives a second call the sequence it gave the first.
GenerateStimulus ==
    /\ steps' = steps + 1
    /\ pc = "loop"
    /\ InRange(t, ticks)
    /\ \E s \in StimChoices :
           /\ run = 2 => s = stims[t + 1]
           /\ stim' = s
    /\ stims' = IF run = 1 THEN Append(stims, stim') ELSE stims
    /\ tickStart' = energy
    /\ stages' = << "stimulus" >>
    /\ pc' = StageAfter("stimulus", FALSE)
    /\ UNCHANGED << config, calls, energy, t, idx, fronting, active, frontLog, out >>

\* range(ticks) is exhausted: run_simulation returns.
Finish ==
    /\ steps' = steps + 1
    /\ stims' = stims
    /\ tickStart' = tickStart
    /\ pc = "loop"
    /\ ~InRange(t, ticks)
    /\ pc' = "done"
    /\ UNCHANGED << config, calls, energy, t, stim, idx, fronting, active, frontLog,
                    out, stages >>

\* nichi.modulate(system.alters); fronting = [].
ModulateField ==
    /\ steps' = steps + 1
    /\ stims' = stims
    /\ tickStart' = tickStart
    /\ pc = "modulate"
    /\ energy' = modulate(energy)
    /\ fronting' = << >>
    /\ idx' = 1
    /\ stages' = Append(stages, "modulate")
    /\ pc' = StageAfter("modulate", FALSE)
    /\ UNCHANGED << config, calls, t, stim, active, frontLog, out >>

\* One iteration of the intake loop: alt.receive_stimulus(stim), and
\* fronting.append(alt) when it returns true.
Intake ==
    /\ steps' = steps + 1
    /\ stims' = stims
    /\ tickStart' = tickStart
    /\ pc = "intake"
    /\ idx <= population
    /\ RoleOf(idx) \in DOMAIN ROLE_SENSITIVITY
    /\ energy' = [energy EXCEPT ![idx] = StimulatedEnergy(idx, stim)]
    /\ fronting' = IF receive_stimulus(idx, stim)
                   THEN Append(fronting, idx) ELSE fronting
    /\ idx' = idx + 1
    /\ stages' = IF idx = 1 THEN Append(stages, "intake") ELSE stages
    /\ pc' = IF idx = population THEN StageAfter("intake", FALSE) ELSE pc
    /\ UNCHANGED << config, calls, t, stim, active, frontLog, out >>

\* The intake loop over an empty system.alters: no iteration.
IntakeNone ==
    /\ steps' = steps + 1
    /\ stims' = stims
    /\ tickStart' = tickStart
    /\ pc = "intake"
    /\ population = 0
    /\ stages' = Append(stages, "intake")
    /\ pc' = StageAfter("intake", FALSE)
    /\ UNCHANGED << config, calls, energy, t, stim, idx, fronting, active, frontLog,
                    out >>

\* ROLE_SENSITIVITY[self.role] raises KeyError: the run aborts.
IntakeKeyError ==
    /\ steps' = steps + 1
    /\ stims' = stims
    /\ tickStart' = tickStart
    /\ pc = "intake"
    /\ idx <= population
    /\ RoleOf(idx) \notin DOMAIN ROLE_SENSITIVITY
    /\ stages' = IF idx = 1 THEN Append(stages, "intake") ELSE stages
    /\ pc' = "error"
    /\ UNCHANGED << config, calls, energy, t, stim, idx, fronting, active, frontLog,
                    out >>

\* if fronting: active = max(fronting, key=lambda a: a.energy)
Arbitrate ==
    /\ steps' = steps + 1
    /\ stims' = stims
    /\ tickStart' = tickStart
    /\ pc = "arbitrate"
    /\ active' = IF fronting # << >> THEN MaxByEnergy(fronting, energy)
                 ELSE active
    /\ stages' = Append(stages, "arbitrate")
    /\ pc' = StageAfter("arbitrate", fronting # << >>)
    /\ UNCHANGED << config, calls, energy, t, stim, idx, fronting, frontLog, out >>

\* active.front()
Front ==
    /\ steps' = steps + 1
    /\ stims' = stims
    /\ tickStart' = tickStart
    /\ pc = "front"
    /\ frontLog' = Append(frontLog, [tick |-> t, who |-> active,
                                     energy |-> Fmt2(energy[active])])
    /\ energy' = front(energy, active)
    /\ stages' = Append(stages, "front")
    /\ pc' = StageAfter("front", TRUE)
    /\ UNCHANGED << config, calls, t, stim, idx, fronting, active, out >>

\* The decay loop over system.alters.
Decay ==
    /\ steps' = steps + 1
    /\ stims' = stims
    /\ tickStart' = tickStart
    /\ pc = "decay"
    /\ energy' = decay(energy)
    /\ stages' = Append(stages, "decay")
    /\ pc' = StageAfter("decay", FALSE)
    /\ UNCHANGED << config, calls, t, stim, idx, fronting, active, frontLog, out >>

\* log_state(t, system.alters), and the loop's next value of t.
LogState ==
    /\ steps' = steps + 1
    /\ stims' = stims
    /\ tickStart' = tickStart
    /\ pc = "observe"
    /\ out' = Append(out, [tick |-> t, status |-> Status(energy)])
    /\ stages' = Append(stages, "observe")
    /\ t' = t + 1
    /\ pc' = StageAfter("observe", FALSE)
    /\ UNCHANGED << config, calls, energy, stim, idx, fronting, active, frontLog >>

\* run_simulation(ticks) is called once more in the same process, the random
\* source seeded as before: system.alters is as the first call left it, the
\* locals and the output are new.
RunAgain ==
    /\ pc = "done"
    /\ run = 1
    /\ run' = 2
    /\ out1' = out
    /\ frontLog1' = frontLog
    /\ out' = << >>
    /\ frontLog' = << >>
    /\ energy0' = energy
    /\ t' = 0
    /\ pc' = "loop"
    /\ stim' = NoStim
    /\ idx' = 1
    /\ fronting' = << >>
    /\ active' = None
    /\ stages' = << >>
    /\ steps' = 0
    /\ tickStart' = energy
    /\ UNCHANGED << population, intensity, FRONT_THRESHOLD, INHIBITION_RATE,
                    KERNEL_BOOST, ENERGY_DECAY, ROLE_SENSITIVITY, energy, ticks,
                    stims >>

Next ==
    \/ GenerateStimulus
    \/ Finish
    \/ ModulateField
    \/ Intake
    \/ IntakeNone
    \/ IntakeKeyError
    \/ Arbitrate
    \/ Front
    \/ Decay
    \/ LogState
    \/ RunAgain

Spec == Init /\ [][Next]_vars

\* ================================================================ claims
Range(seq) == {seq[i] : i \in 1..Len(seq)}
LastStage == IF stages = << >> THEN "none" ELSE stages[Len(stages)]
Fronted(k) == {i \in 1..Len(frontLog) : frontLog[i].tick = k}
AllRolesMapped == Roles \subseteq DOMAIN ROLE_SENSITIVITY

\* C1: after the decay stage of every tick every alter's energy is >= 0,
\* and so is every energy of every printed observation record.
C1_NonNegativeAfterDecay ==
    /\ LastStage \in {"decay", "observe"} =>
           \A a \in Alters : Geq(energy[a], Zero)
    /\ \A i \in 1..Len(out) : \A a \in Alters : out[i].status[a] >= 0

\* C1 witness: a tick has decayed after its winner inhibited with a negative
\* multiplier (the winner's energy before decay times the rate exceeds 1).
C1_Witness ==
    /\ pc = "observe"
    /\ "front" \in Range(stages)
    /\ Gt(energy[active], Zero)
    /\ Gt(Mul(Add(energy[active], ENERGY_DECAY), INHIBITION_RATE), One)

\* C2: in every tick front is invoked at most once, and the alter it is
\* invoked on is one of that tick's candidates.
C2_AtMostOneFront ==
    /\ \A k \in 0..t : Cardinality(Fronted(k)) <= 1
    /\ \A i \in Fronted(t) :
           pc \in {"decay", "observe"} => frontLog[i].who \in Range(fronting)

\* C2 witness: front was invoked in a tick whose candidates are not all the
\* alters, on a candidate that is not the first alter.
C2_Witness ==
    /\ pc = "decay"
    /\ Fronted(t) # {}
    /\ Len(fronting) < population
    /\ active # 1

C4_WinnerIsMaximalCandidate ==
    pc = "front" =>
        /\ active \in Range(fronting)
        /\ \A c \in Range(fronting) : Geq(energy[active], energy[c])

\* C4 witness: the winner is not the first candidate and has strictly more
\* energy than it, while some alter is no candidate.
C4_Witness ==
    /\ pc = "front"
    /\ Len(fronting) >= 2
    /\ Len(fronting) < population
    /\ active # fronting[1]
    /\ Gt(energy[active], energy[fronting[1]])

\* C5: among candidates of equal maximal energy the arbitration chooses the
\* one of lowest index in the population.
C5_TieToLowestIndex ==
    pc = "front" =>
        \A c \in Range(fronting) : energy[c] = energy[active] => active <= c

\* C5 witness: two candidates tie at the maximal energy, a third candidate
\* of less energy precedes them.
C5_Witness ==
    /\ pc = "front"
    /\ \E c \in Range(fronting) : c # active /\ energy[c] = energy[active]
    /\ active # fronting[1]

\* C6 (as claimed): once front has run for a winner with
\* energy * INHIBITION_RATE > 1, every other alter's energy is 0.
C6_InhibitionClamped ==
    (pc = "decay" /\ LastStage = "front"
        /\ Gt(Mul(energy[active], INHIBITION_RATE), One)) =>
        \A o \in Alters \ {active} : energy[o] = Zero

\* C7: front multiplies every other alter's energy by the one factor
\* 1 - e_w * INHIBITION_RATE, e_w the winner's energy when front is invoked,
\* and leaves the winner's energy as it is.
C7_FrontScalesPeersOnly ==
    [][pc = "front" =>
         energy' = [a \in Alters |->
                       IF a = active THEN energy[a]
                       ELSE Mul(energy[a],
                                Sub(One, Mul(energy[active], INHIBITION_RATE)))]
      ]_vars

\* C7 witness: front has run and left two peers with different non-zero
\* energies.
C7_Witness ==
    /\ pc = "decay"
    /\ LastStage = "front"
    /\ \E o1, o2 \in Alters \ {active} :
           /\ energy[o1] # Zero
           /\ energy[o2] # Zero
           /\ energy[o1] # energy[o2]

FullTick(won) ==
    IF won
    THEN << "stimulus", "modulate", "intake", "arbitrate", "front", "decay",
            "observe" >>
    ELSE << "stimulus", "modulate", "intake", "arbitrate", "decay", "observe" >>

IsPrefix(s1, s2) ==
    Len(s1) <= Len(s2) /\ \A i \in 1..Len(s1) : s1[i] = s2[i]

\* C8: the stages of a tick run in the fixed order stimulus, modulate,
\* intake, arbitrate, front (iff there is a candidate), decay, observe, none
\* skipped or repeated; the intake of all alters is over when the arbitration
\* runs; a tick starts only when the tick before it has run all its stages.
C8_StageOrder ==
    /\ \E won \in BOOLEAN : IsPrefix(stages, FullTick(won))
    /\ "decay" \in Range(stages) =>
           ("front" \in Range(stages) <=> fronting # << >>)
    /\ pc \in {"modulate", "arbitrate", "front", "decay", "observe"} =>
           \E won \in BOOLEAN : IsPrefix(Append(stages, pc), FullTick(won))
    /\ pc = "intake" => LastStage = IF idx = 1 THEN "modulate" ELSE "intake"
    /\ pc \in {"arbitrate", "front", "decay", "observe"} => idx = population + 1
    /\ Len(out) = t
    /\ pc \in {"loop", "done"} /\ t > 0 =>
           stages \in {FullTick(TRUE), FullTick(FALSE)}

\* C8 witness: two ticks have run, one with a winner and one without.
C8_Witness ==
    /\ pc = "loop"
    /\ t = 2
    /\ Len(frontLog) = 1

\* C9 (safety part): the observation records carry the tick indices 0, 1,
\* ... in order; a run with ticks >= 0 that returns has run exactly `ticks`
\* iterations and printed `ticks` records; a run of 0 ticks changes nothing.
C9_Counts ==
    /\ \A i \in 1..Len(out) : out[i].tick = i - 1
    /\ ticks >= 0 => Len(out) <= ticks /\ t <= ticks
    /\ (pc = "done" /\ ticks >= 0) => Len(out) = ticks /\ t = ticks
    /\ ticks = 0 =>
           energy = energy0 /\ out = << >> /\ stages = << >> /\ frontLog = << >>

\* The guards of the actions of Next: some step can be taken.
CanStep ==
    \/ pc = "loop"
    \/ pc = "modulate"
    \/ pc = "intake" /\ (idx <= population \/ population = 0)
    \/ pc = "arbitrate"
    \/ pc = "front"
    \/ pc = "decay"
    \/ pc = "observe"

\* C9: for ticks >= 0 (and every role of the population in
\* ROLE_SENSITIVITY) run_simulation returns after exactly `ticks`
\* iterations, having printed `ticks` observation records with the indices
\* 0..ticks-1: the run takes a bounded number of steps, stops nowhere but at
\* its return, and at the return the counts are right.
C9_TerminatesAfterTicks ==
    /\ C9_Counts
    /\ ticks >= 0 => steps <= ticks * (population + 6) + 1
    /\ (ticks >= 0 /\ AllRolesMapped) => (pc = "done" \/ CanStep)

\* C9 witness: a run of at least two ticks has returned.
C9_Witness ==
    /\ pc = "done"
    /\ ticks >= 2
    /\ Len(out) = ticks

\* C10 (as claimed): a negative tick count does not end in normal
\* completion.
C10_NegativeTicksRejected == ticks < 0 => pc # "done"

\* C11 (as claimed): when a role without a row in ROLE_SENSITIVITY aborts
\* the run, no tick has begun: no stage has run and no energy has changed.
C11_AbortsBeforeAnyTick ==
    pc = "error" => energy = energy0 /\ stages = << >>

\* C12 (as claimed): a run over an empty population runs no tick and prints
\* no observation record.
C12_EmptyPopulationRejected ==
    population = 0 => stages = << >> /\ out = << >> /\ pc # "done"

\* The stimulus type has no entry in the row of alter a's role.
Unmapped(a) ==
    /\ RoleOf(a) \in DOMAIN ROLE_SENSITIVITY
    /\ stim.type \notin DOMAIN ROLE_SENSITIVITY[RoleOf(a)]

\* C13: when an alter whose role has a row takes a stimulus whose type the
\* row does not hold, the intake does not fail: the alter's energy grows by
\* exactly intensity * default weight and the intake loop goes on.
C13_UnmappedTypeTakesDefault ==
    [][(pc = "intake" /\ idx <= population /\ Unmapped(idx)) =>
           /\ energy'[idx] = Add(energy[idx], Mul(stim.intensity, DefaultWeight))
           /\ idx' = idx + 1
           /\ pc' \in {"intake", "arbitrate"}
      ]_vars

\* C13 witness: an alter has taken a stimulus of positive intensity whose
\* type its row does not hold.
C13_Witness ==
    /\ pc \in {"intake", "arbitrate"}
    /\ idx > 1
    /\ Unmapped(idx - 1)
    /\ Gt(stim.intensity, Zero)

\* C14 (as claimed): a second call of run_simulation with the same tick
\* count, configuration and stimulus sequence prints the same energies tick
\* by tick and has the same winners as the first.
C14_SecondRunRepeatsFirst ==
    (run = 2 /\ pc = "done") => out = out1 /\ frontLog = frontLog1

\* C15: in a tick in which no alter's energy reaches FRONT_THRESHOLD at the
\* intake, the arbitration goes straight to the decay, with no front and no
\* energy changed, and the decay then lowers every alter's energy.
C15_NoCandidateNoFront ==
    [][/\ (pc = "arbitrate" /\ \A a \in Alters : Lt(energy[a], FRONT_THRESHOLD)) =>
              pc' = "decay" /\ energy' = energy /\ frontLog' = frontLog
       /\ (pc = "decay" /\ fronting = << >>) =>
              /\ Fronted(t) = {}
              /\ frontLog' = frontLog
              /\ \A a \in Alters :
                     energy'[a] = IF Gt(energy[a], ENERGY_DECAY)
                                  THEN Sub(energy[a], ENERGY_DECAY) ELSE Zero
      ]_vars

\* C15 witness: a tick without candidates has decayed a positive energy.
C15_Witness ==
    /\ pc = "observe"
    /\ fronting = << >>
    /\ Fronted(t) = {}
    /\ \E a \in Alters : Gt(energy[a], Zero)

\* C16: the decay runs once per tick, after the arbitration and the front if
\* any, and gives every alter, the winner too, max(0, energy - ENERGY_DECAY)
\* of the energy it had then; the winner reaches the decay with the energy
\* it fronted with.
C16_DecayOncePerTickForAll ==
    [][/\ pc = "front" => energy'[active] = energy[active] /\ pc' = "decay"
       /\ pc = "decay" =>
           /\ LastStage \in {"arbitrate", "front"}
           /\ "decay" \notin Range(stages)
           /\ stages' = Append(stages, "decay")
           /\ pc' = "observe"
           /\ \A a \in Alters :
                  energy'[a] = IF Gt(energy[a], ENERGY_DECAY)
                               THEN Sub(energy[a], ENERGY_DECAY) ELSE Zero
      ]_vars

\* C16 witness: a tick with a winner has decayed, the winner and a peer
\* keeping positive energy.
C16_Witness ==
    /\ pc = "observe"
    /\ "front" \in Range(stages)
    /\ Gt(energy[active], Zero)
    /\ \E o \in Alters \ {active} : Gt(energy[o], Zero)

\* C17: the modulate stage adds intensity * KERNEL_BOOST to every alter's
\* energy, once per tick, and no step changes the field's intensity or
\* KERNEL_BOOST.
C17_UniformBoostConstantField ==
    [][/\ intensity' = intensity
       /\ KERNEL_BOOST' = KERNEL_BOOST
       /\ pc = "modulate" =>
              /\ "modulate" \notin Range(stages)
              /\ stages' = Append(stages, "modulate")
              /\ \A a \in Alters :
                     energy'[a] = Add(energy[a], Mul(intensity, KERNEL_BOOST))
      ]_vars

\* C17 witness: the second tick of a run has modulated a population.
C17_Witness ==
    /\ pc = "intake"
    /\ idx = 1
    /\ t >= 1
    /\ population > 0

\* C18 (as claimed): at the end of every tick of a run entered with energies
\* in [0, 1], every alter's energy is in [0, 1].
C18_EnergyInUnitRange ==
    (run = 1 /\ LastStage = "observe") =>
        \A a \in Alters : Geq(energy[a], Zero) /\ Leq(energy[a], One)

\* The case of C19: the boost exceeds the decay, the population is not empty
\* and no intake fails (weights and intensities are never negative).
BoostBeatsDecay ==
    /\ population > 0
    /\ AllRolesMapped
    /\ Gt(Mul(intensity, KERNEL_BOOST), ENERGY_DECAY)

\* C19: when the boost exceeds the decay, every tick without a winner raises
\* every alter's energy by at least boost - decay, so the ticks a run can
\* spend before its first winner are bounded: after n such ticks every alter
\* was, at the last arbitration, at its initial energy plus n boosts minus
\* n - 1 decays at least, and below FRONT_THRESHOLD.
C19_WinnerlessTicksBounded ==
    BoostBeatsDecay =>
        LET gain == Sub(Mul(intensity, KERNEL_BOOST), ENERGY_DECAY)
        IN /\ (LastStage \in {"decay", "observe"} /\ "front" \notin Range(stages)) =>
                  \A a \in Alters : Geq(energy[a], Add(tickStart[a], gain))
           /\ (pc \in {"loop", "done"} /\ t >= 1 /\ frontLog = << >>) =>
                  \A a \in Alters :
                      Lt(Add(energy0[a], (t - 1) * gain + Mul(intensity, KERNEL_BOOST)),
                         FRONT_THRESHOLD)

\* C19 witness: with the boost above the decay, a tick without a winner was
\* followed by a tick with one.
C19_Witness ==
    /\ BoostBeatsDecay
    /\ pc = "decay"
    /\ t = 1
    /\ Fronted(0) = {}
    /\ Fronted(1) # {}

====
